---- MODULE Spec2Model ----
(***************************************************************************)
(* State-machine model of the Spark-TTS desktop front end (src/gui.py)     *)
(* and of its inference gateway (src/spark_tts_backend.py).                *)
(*                                                                         *)
(* Two kinds of thread are modelled: the GUI thread, which runs the slots  *)
(* of SparkTTS_GUI one at a time, and one QThread per TTSWorker.  A signal *)
(* emitted by a worker is appended to the GUI thread's event queue and the *)
(* connected slot runs when the GUI thread takes it from the queue.        *)
(*                                                                         *)
(* Strings of the program are sequences of one-character strings, so that  *)
(* clean_text and the file-name sanitiser are computed, not assumed.       *)
(* Python's None is the empty sequence; an optional value x is <<x>>.      *)
(*                                                                         *)
(* The timestamp in a generated file name is the number of the job, so     *)
(* two jobs never write the same file.  Log lines, the status bar and the  *)
(* open-folder button are left out: no slot reads them.                    *)
(***************************************************************************)
EXTENDS Integers, Sequences, FiniteSets, TLC

\* ------------------------------------------------------------------ bounds
\* Number of TTSWorker objects the model lets the GUI create.
MaxJobs == 2
\* Length of the strings a text function is applied to.
MaxLen == 4

\* ------------------------------------------------------- program constants
\* text[:15] in run_tts
PrefixLen == 15
\* len(prompt_text) >= 2 in run_voice_clone and in run_tts
MinPromptLen == 2

None == <<>>
Some(x) == <<x>>

\* save_dir default of run_tts
save_dir == "tts_results"
\* the fallback prefix of run_tts
AudioToken == <<"a", "u", "d", "i", "o">>

\* A reference clip the user can select in the file dialog.
RefPath == <<"home", <<"ref.wav">>>>

\* ------------------------------------------------------------ text helpers
Min(a, b) == IF a < b THEN a ELSE b

\* str.isspace / the regex class \s, over the model's alphabet
isspace(c) == c \in {" ", "\t", "\n"}
\* str.isalnum, over the model's alphabet
isalnum(c) == c \in {"a", "b", "c"}

RECURSIVE lstrip(_)
lstrip(s) == IF s # <<>> /\ isspace(Head(s)) THEN lstrip(Tail(s)) ELSE s

RECURSIVE rstrip(_)
rstrip(s) ==
  IF s # <<>> /\ isspace(s[Len(s)]) THEN rstrip(SubSeq(s, 1, Len(s) - 1)) ELSE s

strip(s) == rstrip(lstrip(s))

\* str.replace for one-character patterns
replace(s, old, new) == [i \in 1..Len(s) |-> IF s[i] = old THEN new ELSE s[i]]

\* re.sub(r'\s+', ' ', s)
RECURSIVE sub_spaces(_)
sub_spaces(s) ==
  IF s = <<>> THEN <<>>
  ELSE IF isspace(Head(s)) THEN <<" ">> \o sub_spaces(lstrip(s))
  ELSE <<Head(s)>> \o sub_spaces(Tail(s))

\* re.sub(r' +', ' ', s)
RECURSIVE sub_blanks(_)
sub_blanks(s) ==
  IF s = <<>> THEN <<>>
  ELSE IF Head(s) = " " /\ Len(s) > 1 /\ s[2] = " " THEN sub_blanks(Tail(s))
  ELSE <<Head(s)>> \o sub_blanks(Tail(s))

\* A clean_text that collapses runs of blanks before it replaces newlines
\* and tabs
clean_text_collapse_first(input_text) ==
  IF input_text = <<>> THEN <<>>
  ELSE strip(replace(replace(sub_blanks(input_text), "\n", " "), "\t", " "))

\* A clean_text without the re.sub
clean_text_no_collapse(input_text) ==
  IF input_text = <<>> THEN <<>>
  ELSE strip(replace(replace(input_text, "\n", " "), "\t", " "))

clean_text(input_text) ==
  IF input_text = <<>> THEN <<>>
  ELSE strip(sub_spaces(replace(replace(input_text, "\n", " "), "\t", " ")))

\* "".join(c for c in text[:15] if c.isalnum() or c in (' ', '_')).rstrip(),
\* with the "audio" fallback
KeepChar(c) == isalnum(c) \/ c \in {" ", "_"}
\* A prefix that drops the characters first and cuts afterwards
safe_text_prefix_cut_last(text) ==
  LET sel  == SelectSeq(text, KeepChar)
      kept == rstrip(SubSeq(sel, 1, Min(PrefixLen, Len(sel))))
  IN  IF kept = <<>> THEN AudioToken ELSE kept

safe_text_prefix(text) ==
  LET kept == rstrip(SelectSeq(SubSeq(text, 1, Min(PrefixLen, Len(text))), KeepChar))
  IN  IF kept = <<>> THEN AudioToken ELSE kept

\* os.path.join(save_dir, f"{timestamp}_{safe_text_prefix}.wav"); the file
\* name is the pair (timestamp, prefix)
save_path(timestamp, text) == <<save_dir, <<timestamp, safe_text_prefix(text)>>>>

\* Path(p).name
PathName(p) == p[Len(p)]

\* Factors are in tenths.
\* LEVELS_MAP_UI of sparktts.utils.token_parser: the level-to-factor table
LEVELS_MAP_UI == [l \in 1..5 |-> 7 + l]
\* The table the backend falls back to when that import fails
DefaultLevels == [l \in 1..5 |-> 7 + l]
\* The backend module loads only if LEVELS_MAP_UI can be imported
levels_imported == TRUE
\* `from sparktts.utils.token_parser import LEVELS_MAP_UI as UI_LEVELS_MAP`,
\* or the fallback
UI_LEVELS_MAP == IF levels_imported THEN LEVELS_MAP_UI ELSE DefaultLevels
\* UI_LEVELS_MAP.get(level, 1.0)
LevelFactor(level) == IF level \in DOMAIN UI_LEVELS_MAP THEN UI_LEVELS_MAP[level] ELSE 10

\* ------------------------------------------------------------- input sets
\* What the user may have typed in a text box when a generate button is hit.
RawTexts == { <<>>, <<"\t", " ">>, <<" ", "a", "\n", "\t", "b", " ">> }
\* What the user may have typed in the reference-text box.
RawPromptTexts == { <<"a", "\n", "b">> }
\* Gender and slider positions (pitch, speed) of a create submission.
CreateChoices == { <<"female", 5, 1>> }

\* ------------------------------------------------------------------ state
VARIABLES
  workers,                    \* the TTSWorker objects created so far, in order
  tts_thread,                 \* self.tts_thread: 0 (None) or an index of workers
  queue,                      \* signals emitted by workers, not yet handled
  fs,                         \* the paths that exist on disk
  last_generated_audio_path,  \* self.last_generated_audio_path
  last_generated_filename,    \* self.last_generated_filename
  progress_dialog,            \* self.progress_dialog: None or <<label text>>
  btn_generate,               \* btn_generate_clone / btn_generate_create enabled
  play_button,                \* play_button enabled
  stop_button,                \* stop_button enabled
  output_status_label,        \* text of output_status_label
  prompt_audio_path_edit,     \* text of the reference-path field
  msgbox,                     \* message box shown by the latest GUI slot
  player_state,               \* self.player.playbackState()
  player_source,              \* the source of self.player: None or a path
  player_calls,               \* the calls the latest playback slot made on self.player
  closed,                     \* a close event has been accepted
  fn_call,                    \* a call of a text or argument function: its name and arguments
  fn_results                  \* what that call returned, and what it returned when repeated

vars == << workers, tts_thread, queue, fs, last_generated_audio_path,
           last_generated_filename, progress_dialog, btn_generate, play_button,
           stop_button, output_status_label,
           prompt_audio_path_edit, msgbox,
           player_state, player_source, player_calls, closed,
           fn_call, fn_results >>

\* A function called on its own, outside the window
fn_vars == << fn_call, fn_results >>

\* The media player and the window's close state
play_vars == << player_state, player_source, player_calls, closed >>

gui_vars == << tts_thread, last_generated_audio_path, last_generated_filename,
               progress_dialog, btn_generate, play_button, stop_button,
               output_status_label,
               prompt_audio_path_edit, msgbox >>

display_vars == << btn_generate, play_button, stop_button, output_status_label >>

\* A label text: an icon, the wording, and the file name it shows (or None).
Label(icon, text, name) == [icon |-> icon, text |-> text, name |-> name]

\* ------------------------------------------------------------- TTSWorker
\* TTSWorker.__init__, followed by QThread.start(): the thread is running
\* from here on, run() is entered at RunBegin.  The fields after
\* result_path record what the worker has done (they are read by no action).
TTSWorker(args_dict) ==
  [ pc            |-> "start",
    args          |-> args_dict,
    is_cancelled  |-> FALSE,
    result_path   |-> None,
    emitted       |-> <<>>,      \* signals emitted, in order
    invoked       |-> FALSE,     \* run_tts was called
    flag_at_pre   |-> "unread",  \* the flag as read before dispatch
    flag_at_post  |-> "unread",  \* the flag as read after run_tts returned
    cancel_at     |-> "never",   \* cancel() first ran: never / in run_tts / elsewhere
    removal       |-> "none" ]   \* os.remove of the artifact: removed / failed / skipped

\* The record left in place of a worker object that has been released.
Released ==
  [ pc |-> "released", args |-> None, is_cancelled |-> FALSE, result_path |-> None,
    emitted |-> <<>>, invoked |-> FALSE, flag_at_pre |-> "unread",
    flag_at_post |-> "unread", cancel_at |-> "never", removal |-> "none" ]

\* A worker whose run() has returned: no slot reads its fields any more, and
\* the record keeps only what became of the artifact it was to remove.
Returned(removal) == [Released EXCEPT !.pc = "done", !.removal = removal]

\* QThread.isRunning(): true from start() until run() has returned
isRunning(w) == w.pc \notin {"done", "released"}

\* The worker is inside run().
InRun(w) == w.pc \in {"check1", "gateway", "check2", "exit", "cleanup"}

Signal(sender, sig, arg) == [sender |-> sender, sig |-> sig, arg |-> arg]

TerminalSigs == {"finished", "error"}

\* The signals worker i emits for the (signal, argument) pairs in sigs
Signals(i, sigs) == [k \in 1..Len(sigs) |-> Signal(i, sigs[k][1], sigs[k][2])]

\* TTSWorker.cancel
cancel(w) ==
  [w EXCEPT !.is_cancelled = TRUE,
            !.cancel_at = IF w.cancel_at # "never" THEN w.cancel_at
                          ELSE IF w.pc = "gateway" THEN "in run_tts" ELSE "elsewhere"]

\* ------------------------------------------------------------- run_tts
\* What the world does to one call of run_tts: whether os.makedirs succeeds,
\* and what model.inference and sf.write do.
GatewayEnvs == {"ok", "makedirs_fails", "inference_none", "type_error", "other_error"}

\* The model object handed to every worker (main() exits when it is falsy).
model_loaded == TRUE

\* The keyword arguments of model.inference: those of run_tts, the reference
\* text passed only when it has two characters or more
inference_kwargs(args) ==
  [ args EXCEPT !.prompt_text =
      IF args.prompt_text # None /\ Len(args.prompt_text) >= MinPromptLen
      THEN args.prompt_text ELSE None ]

\* A run_tts that calls the model before it looks for the reference clip
run_tts_checks_late(model, args, now, disk, env) ==
  LET ret(v, d, k) == [raised |-> "", value |-> v, disk |-> d, inference |-> k]
      raise(x, k)  == [raised |-> x, value |-> None, disk |-> disk, inference |-> k]
      path         == save_path(now, args.text)
      kwargs       == Some(inference_kwargs(args))
  IN  IF args.text = <<>> THEN ret(None, disk, None)
      ELSE IF ~model THEN ret(None, disk, None)
      ELSE IF env = "makedirs_fails" THEN raise("OSError", None)
      ELSE IF args.prompt_speech_path # None /\ args.prompt_speech_path \notin disk
        THEN raise("FileNotFoundError", kwargs)
      ELSE IF env = "ok" THEN ret(path, disk \cup {path}, kwargs)
      ELSE ret(None, disk, kwargs)

\* run_tts(model, **args) called at time `now` on disk `disk` in world `env`:
\* what it raises, what it returns, and the disk afterwards.
\* `inference` is None, or the keyword arguments model.inference was called
\* with.
run_tts(model, args, now, disk, env) ==
  LET ret(v, d, k) == [raised |-> "", value |-> v, disk |-> d, inference |-> k]
      raise(x)     == [raised |-> x, value |-> None, disk |-> disk, inference |-> None]
      path         == save_path(now, args.text)
      kwargs       == Some(inference_kwargs(args))
  IN  IF args.text = <<>> THEN ret(None, disk, None)
      ELSE IF ~model THEN ret(None, disk, None)
      ELSE IF args.prompt_speech_path # None /\ args.prompt_speech_path \notin disk
        THEN raise("FileNotFoundError")
      ELSE IF env = "makedirs_fails" THEN raise("OSError")
      ELSE IF env = "ok" THEN ret(path, disk \cup {path}, kwargs)
      ELSE ret(None, disk, kwargs)

\* --------------------------------------------------------- TTSWorker.run
\* One step of worker i: its record becomes w2, it emits the signals sigs
\* (at most one), and the disk becomes disk2.  The GUI's fields are untouched.
WorkerStep(i, w2, sigs, disk2) ==
  /\ workers' = [workers EXCEPT ![i] =
                   IF w2.pc = "done" THEN w2
                   ELSE [w2 EXCEPT !.emitted = workers[i].emitted \o sigs]]
  /\ queue' = queue \o sigs
  /\ fs' = disk2
  /\ UNCHANGED gui_vars

\* run() is entered: the log line and progress.emit
RunBegin(i) ==
  /\ workers[i].pc = "start"
  /\ WorkerStep(i, [workers[i] EXCEPT !.pc = "check1"],
                Signals(i, << <<"progress", "initializing inference">> >>), fs)

\* A check before dispatch that does not look at the flag
pre_dispatch_unchecked(is_cancelled) ==
  [sigs |-> <<>>, pc |-> "gateway"]

\* A check before dispatch that leaves run() without a signal when the flag
\* is set
pre_dispatch_silent(is_cancelled) ==
  IF is_cancelled
  THEN [sigs |-> <<>>, pc |-> "exit"]
  ELSE [sigs |-> <<>>, pc |-> "gateway"]

\* What the check before dispatch does with the flag it reads: the signals it
\* emits and where run() goes on.
pre_dispatch(is_cancelled) ==
  IF is_cancelled
  THEN [sigs |-> << <<"error", "cancelled before start">> >>, pc |-> "exit"]
  ELSE [sigs |-> <<>>, pc |-> "gateway"]

\* `if self._is_cancelled:` before run_tts; when clear, run_tts is called
PreDispatch(i) ==
  LET w == workers[i]
      d == pre_dispatch(w.is_cancelled)
  IN  /\ w.pc = "check1"
      /\ WorkerStep(i,
           [w EXCEPT !.pc = d.pc,
                     !.flag_at_pre = IF w.is_cancelled THEN "set" ELSE "clear",
                     !.invoked = (d.pc = "gateway")],
           Signals(i, d.sigs), fs)

\* Except clauses with the FileNotFoundError clause missing
except_signal_generic(raised) == <<"error", "unexpected error">>

\* The except clauses of run(): the error signal for an exception of run_tts
except_signal(raised) ==
  IF raised = "FileNotFoundError" THEN <<"error", "file error">>
  ELSE <<"error", "unexpected error">>

\* run_tts returns or raises.  A raise goes straight to the except clause,
\* which emits; a return stores result_path and goes on to the second check.
Gateway(i) ==
  LET w == workers[i]
  IN  /\ w.pc = "gateway"
      /\ \E env \in GatewayEnvs :
           LET r == run_tts(model_loaded, w.args, i, fs, env)
           IN  IF r.raised # ""
               THEN WorkerStep(i, [w EXCEPT !.pc = "exit"],
                      Signals(i, <<except_signal(r.raised)>>), r.disk)
               ELSE WorkerStep(i, [w EXCEPT !.pc = "check2", !.result_path = r.value],
                      <<>>, r.disk)

\* The code after run_tts without the `return` of its cancel branch: the
\* cancel error is followed by the signal of the result
post_dispatch_no_return(is_cancelled, result_path) ==
  LET result_sig == IF result_path # None THEN <<"finished", result_path>>
                    ELSE <<"error", "inference failed">>
  IN  IF is_cancelled
      THEN [sigs |-> << <<"error", "cancelled during processing">>, result_sig >>,
            pc |-> "cleanup"]
      ELSE [sigs |-> <<result_sig>>, pc |-> "exit"]

\* The code after run_tts looking at the result before the flag
post_dispatch_result_first(is_cancelled, result_path) ==
  IF result_path # None
  THEN [sigs |-> << <<"finished", result_path>> >>, pc |-> "exit"]
  ELSE IF is_cancelled
  THEN [sigs |-> << <<"error", "cancelled during processing">> >>, pc |-> "cleanup"]
  ELSE [sigs |-> << <<"error", "inference failed">> >>, pc |-> "exit"]

\* What the code after run_tts does with the flag it reads and the result:
\* the signals it emits and where run() goes on.
post_dispatch(is_cancelled, result_path) ==
  IF is_cancelled
  THEN [sigs |-> << <<"error", "cancelled during processing">> >>, pc |-> "cleanup"]
  ELSE IF result_path # None
  THEN [sigs |-> << <<"finished", result_path>> >>, pc |-> "exit"]
  ELSE [sigs |-> << <<"error", "inference failed">> >>, pc |-> "exit"]

\* The terminal signal run() emits for an outcome r of run_tts: that of the
\* except clause when run_tts raised, that of the code after it otherwise
run_emits(is_cancelled, r) ==
  IF r.raised # "" THEN << except_signal(r.raised) >>
  ELSE post_dispatch(is_cancelled, r.value).sigs

\* `if self._is_cancelled:` after run_tts, else finished / error
PostDispatch(i) ==
  LET w == workers[i]
      d == post_dispatch(w.is_cancelled, w.result_path)
  IN  /\ w.pc = "check2"
      /\ WorkerStep(i,
           [w EXCEPT !.pc = d.pc,
                     !.flag_at_post = IF w.is_cancelled THEN "set" ELSE "clear"],
           Signals(i, d.sigs), fs)

\* The removal of a cancelled job's artifact, after the error signal has been
\* emitted: tried when the file is there, and os.remove may fail.
Cleanup(i) ==
  LET w == workers[i]
  IN  /\ w.pc = "cleanup"
      /\ IF w.result_path # None /\ w.result_path \in fs
         THEN \E removed \in BOOLEAN :
                WorkerStep(i, Returned(IF removed THEN "removed" ELSE "failed"),
                  <<>>, IF removed THEN fs \ {w.result_path} ELSE fs)
         ELSE WorkerStep(i, Returned("skipped"), <<>>, fs)

\* run() returns after a terminal signal
RunEnd(i) ==
  /\ workers[i].pc = "exit"
  /\ WorkerStep(i, Returned("none"), <<>>, fs)

\* ------------------------------------------------------- SparkTTS_GUI slots
\* set_ui_busy(busy): the enabled state of both generate buttons
set_ui_busy(is_busy) == ~is_busy

\* A guard of start_tts_thread that never holds
busy_never(thread, ws) == FALSE

\* The guard of start_tts_thread
busy(thread, ws) == thread # 0 /\ isRunning(ws[thread])

\* A slot that returns after showing a message box and changes nothing else
\* but, possibly, the reference-path field.
Rejected(box, path_edit) ==
  /\ msgbox' = box
  /\ prompt_audio_path_edit' = path_edit
  /\ UNCHANGED << workers, queue, fs, tts_thread, last_generated_audio_path,
                  last_generated_filename, progress_dialog, display_vars >>

\* A start_tts_thread that forgets the stored audio path as well
start_tts_thread_forgets_result(args_dict) ==
  IF busy(tts_thread, workers)
  THEN Rejected(<<"warning", "Busy">>, prompt_audio_path_edit)
  ELSE /\ Len(workers) < MaxJobs
       /\ btn_generate' = set_ui_busy(TRUE)
       /\ last_generated_filename' = None
       /\ last_generated_audio_path' = None
       /\ output_status_label' = Label("hourglass", "initializing", None)
       /\ play_button' = FALSE
       /\ stop_button' = FALSE
       /\ progress_dialog' = <<"generating speech">>
       /\ workers' = Append(workers, TTSWorker(args_dict))
       /\ tts_thread' = Len(workers) + 1
       /\ msgbox' = None
       /\ UNCHANGED << queue, fs, prompt_audio_path_edit >>

\* A start_tts_thread that leaves the generate buttons and the play button
\* as they are
start_tts_thread_not_busy(args_dict) ==
  IF busy(tts_thread, workers)
  THEN Rejected(<<"warning", "Busy">>, prompt_audio_path_edit)
  ELSE /\ Len(workers) < MaxJobs
       /\ last_generated_filename' = None
       /\ output_status_label' = Label("hourglass", "initializing", None)
       /\ progress_dialog' = <<"generating speech">>
       /\ workers' = Append(workers, TTSWorker(args_dict))
       /\ tts_thread' = Len(workers) + 1
       /\ msgbox' = None
       /\ UNCHANGED << queue, fs, last_generated_audio_path, prompt_audio_path_edit,
                       btn_generate, play_button, stop_button >>

\* start_tts_thread
start_tts_thread(args_dict) ==
  IF busy(tts_thread, workers)
  THEN Rejected(<<"warning", "Busy">>, prompt_audio_path_edit)
  ELSE /\ Len(workers) < MaxJobs
       /\ btn_generate' = set_ui_busy(TRUE)
       /\ last_generated_filename' = None
       /\ output_status_label' = Label("hourglass", "initializing", None)
       /\ play_button' = FALSE
       /\ stop_button' = FALSE
       /\ progress_dialog' = <<"generating speech">>
       /\ workers' = Append(workers, TTSWorker(args_dict))
       /\ tts_thread' = Len(workers) + 1
       /\ msgbox' = None
       /\ UNCHANGED << queue, fs, last_generated_audio_path, prompt_audio_path_edit >>

\* A validation of run_voice_clone without the os.path.exists check
validate_clone_no_exists(text, prompt_speech, disk) ==
  IF text = <<>> THEN <<"warning", "EmptyInput">>
  ELSE IF prompt_speech = None THEN <<"warning", "MissingReference">>
  ELSE None

\* The validation of run_voice_clone: the message box of the first check
\* that fails, or None
validate_clone(text, prompt_speech, disk) ==
  IF text = <<>> THEN <<"warning", "EmptyInput">>
  ELSE IF prompt_speech = None THEN <<"warning", "MissingReference">>
  ELSE IF prompt_speech \notin disk THEN <<"critical", "ReferenceNotFound">>
  ELSE None

\* An args dictionary of run_voice_clone that carries the creation tab's
\* gender along
clone_args_with_gender(text, prompt_speech, prompt_text) ==
  [ text               |-> text,
    prompt_speech_path |-> prompt_speech,
    prompt_text        |-> IF Len(prompt_text) >= MinPromptLen THEN prompt_text ELSE None,
    gender             |-> Some("female"),
    pitch              |-> None,
    speed              |-> None ]

\* An args dictionary of run_voice_clone that wants more than two characters
clone_args_longer(text, prompt_speech, prompt_text) ==
  [ text               |-> text,
    prompt_speech_path |-> prompt_speech,
    prompt_text        |-> IF Len(prompt_text) > MinPromptLen THEN prompt_text ELSE None,
    gender             |-> None,
    pitch              |-> None,
    speed              |-> None ]

\* The args dictionary of run_voice_clone
clone_args(text, prompt_speech, prompt_text) ==
  [ text               |-> text,
    prompt_speech_path |-> prompt_speech,
    prompt_text        |-> IF Len(prompt_text) >= MinPromptLen THEN prompt_text ELSE None,
    gender             |-> None,
    pitch              |-> None,
    speed              |-> None ]

run_voice_clone(text_input, prompt_text_input) ==
  LET raw_text        == strip(text_input)
      raw_prompt_text == strip(prompt_text_input)
      prompt_speech   == prompt_audio_path_edit
      text            == clean_text(raw_text)
      prompt_text     == clean_text(raw_prompt_text)
      box             == validate_clone(text, prompt_speech, fs)
  IN  IF box # None
      THEN Rejected(box, IF box[2] = "ReferenceNotFound" THEN None
                         ELSE prompt_audio_path_edit)
      ELSE start_tts_thread(clone_args(text, prompt_speech, prompt_text))

\* The validation of run_voice_creation
validate_creation(raw_text) ==
  IF raw_text = <<>> THEN <<"warning", "EmptyInput">>
  ELSE IF clean_text(raw_text) = <<>> THEN <<"warning", "EmptyInput">>
  ELSE None

\* An args dictionary of run_voice_creation with pitch and speed exchanged
creation_args_swapped(text, gender, pitch_level, speed_level) ==
  [ text               |-> text,
    prompt_speech_path |-> None,
    prompt_text        |-> None,
    gender             |-> Some(gender),
    pitch              |-> Some(LevelFactor(speed_level)),
    speed              |-> Some(LevelFactor(pitch_level)) ]

\* The args dictionary of run_voice_creation
creation_args(text, gender, pitch_level, speed_level) ==
  [ text               |-> text,
    prompt_speech_path |-> None,
    prompt_text        |-> None,
    gender             |-> Some(gender),
    pitch              |-> Some(LevelFactor(pitch_level)),
    speed              |-> Some(LevelFactor(speed_level)) ]

run_voice_creation(text_input, gender, pitch_level, speed_level) ==
  LET raw_text == strip(text_input)
      box      == validate_creation(raw_text)
  IN  IF box # None
      THEN Rejected(box, prompt_audio_path_edit)
      ELSE start_tts_thread(
             creation_args(clean_text(raw_text), gender, pitch_level, speed_level))

\* update_progress
update_progress(message) ==
  /\ progress_dialog' = IF progress_dialog # None THEN <<message>> ELSE progress_dialog
  /\ msgbox' = None
  /\ UNCHANGED << tts_thread, last_generated_audio_path, last_generated_filename,
                  display_vars, prompt_audio_path_edit >>

\* An on_tts_finished that keeps the thread handle
on_tts_finished_keeps_handle(result_path) ==
  /\ last_generated_audio_path' = result_path
  /\ last_generated_filename' = PathName(result_path)
  /\ progress_dialog' = None
  /\ output_status_label' = Label("check", "generated", PathName(result_path))
  /\ play_button' = TRUE
  /\ stop_button' = FALSE
  /\ btn_generate' = set_ui_busy(FALSE)
  /\ msgbox' = None
  /\ UNCHANGED << tts_thread, prompt_audio_path_edit >>

\* An on_tts_finished that stores the file name and not the path
on_tts_finished_name_only(result_path) ==
  /\ last_generated_audio_path' = last_generated_audio_path
  /\ last_generated_filename' = PathName(result_path)
  /\ progress_dialog' = None
  /\ output_status_label' = Label("check", "generated", PathName(result_path))
  /\ play_button' = TRUE
  /\ stop_button' = FALSE
  /\ btn_generate' = set_ui_busy(FALSE)
  /\ tts_thread' = 0
  /\ msgbox' = None
  /\ UNCHANGED prompt_audio_path_edit

\* on_tts_finished
on_tts_finished(result_path) ==
  /\ last_generated_audio_path' = result_path
  /\ last_generated_filename' = PathName(result_path)
  /\ progress_dialog' = None
  /\ output_status_label' = Label("check", "generated", PathName(result_path))
  /\ play_button' = TRUE
  /\ stop_button' = FALSE
  /\ btn_generate' = set_ui_busy(FALSE)
  /\ tts_thread' = 0
  /\ msgbox' = None
  /\ UNCHANGED prompt_audio_path_edit

\* An on_tts_error that keeps the thread handle
on_tts_error_keeps_handle(error_message) ==
  /\ progress_dialog' = None
  /\ msgbox' = <<"critical", "TTS error", error_message>>
  /\ last_generated_filename' = None
  /\ output_status_label' = Label("cross", "generation failed", None)
  /\ play_button' = FALSE
  /\ stop_button' = FALSE
  /\ btn_generate' = set_ui_busy(FALSE)
  /\ UNCHANGED << tts_thread, last_generated_audio_path, prompt_audio_path_edit >>

\* An on_tts_error that also forgets the stored audio path
on_tts_error_clears_result(error_message) ==
  /\ progress_dialog' = None
  /\ msgbox' = <<"critical", "TTS error", error_message>>
  /\ last_generated_audio_path' = None
  /\ last_generated_filename' = None
  /\ output_status_label' = Label("cross", "generation failed", None)
  /\ play_button' = FALSE
  /\ stop_button' = FALSE
  /\ btn_generate' = set_ui_busy(FALSE)
  /\ tts_thread' = 0
  /\ UNCHANGED prompt_audio_path_edit

\* on_tts_error
on_tts_error(error_message) ==
  /\ progress_dialog' = None
  /\ msgbox' = <<"critical", "TTS error", error_message>>
  /\ last_generated_filename' = None
  /\ output_status_label' = Label("cross", "generation failed", None)
  /\ play_button' = FALSE
  /\ stop_button' = FALSE
  /\ btn_generate' = set_ui_busy(FALSE)
  /\ tts_thread' = 0
  /\ UNCHANGED << last_generated_audio_path, prompt_audio_path_edit >>

\* cancel_tts
cancel_tts ==
  /\ msgbox' = None
  /\ IF busy(tts_thread, workers)
     THEN /\ workers' = [workers EXCEPT ![tts_thread] = cancel(@)]
          /\ output_status_label' = Label("none", "cancelling", None)
     ELSE UNCHANGED << workers, output_status_label >>
  /\ UNCHANGED << queue, fs, tts_thread, last_generated_audio_path,
                  last_generated_filename, progress_dialog, btn_generate,
                  play_button, stop_button, prompt_audio_path_edit >>

\* select_prompt_audio: the file dialog returns an existing file
select_prompt_audio(file_path) ==
  /\ file_path \in fs
  /\ prompt_audio_path_edit' = file_path
  /\ msgbox' = None
  /\ UNCHANGED << workers, queue, fs, tts_thread, last_generated_audio_path,
                  last_generated_filename, progress_dialog, btn_generate,
                  play_button, stop_button, output_status_label >>

\* ------------------------------------------------------ playback slots
\* os.path.exists of a stored path
exists(path, disk) == path # None /\ path \in disk

\* `"❌" in current_text` and `"✅" in current_text`: the file name a label
\* may show is made of the characters KeepChar lets through, so the mark is
\* in the text exactly when it is the icon the slot put there.
has_cross(label) == label.icon = "cross"
has_check(label) == label.icon = "check"

\* _update_playback_status: the status with the stored file name, if any
update_playback_status(icon, status_prefix) ==
  Label(icon, status_prefix, last_generated_filename)

\* The value given to play_button.setEnabled when playback has ended
can_replay ==
  last_generated_filename # None /\ exists(last_generated_audio_path, fs)

job_unchanged == UNCHANGED << workers, queue, fs, tts_thread, progress_dialog,
                              btn_generate, prompt_audio_path_edit >>

\* A play_audio that takes an error off the label when it starts the player
play_audio_clears_error ==
  /\ IF exists(last_generated_audio_path, fs)
     THEN /\ player_calls' = <<"stop", "setSource", "play">>
          /\ player_source' = last_generated_audio_path
          /\ player_state' = "Playing"
          /\ stop_button' = TRUE
          /\ play_button' = FALSE
          /\ msgbox' = None
          /\ output_status_label' =
               IF has_cross(output_status_label)
               THEN update_playback_status("none", "loading")
               ELSE output_status_label
     ELSE /\ msgbox' = <<"warning", "NoResult">>
          /\ play_button' = FALSE
          /\ player_calls' = <<>>
          /\ UNCHANGED << player_source, player_state, stop_button,
                          output_status_label >>
  /\ UNCHANGED << last_generated_audio_path, last_generated_filename, closed >>
  /\ job_unchanged

\* A play_audio that does not look for the file
play_audio_unchecked ==
  /\ player_calls' = <<"stop", "setSource", "play">>
  /\ player_source' = last_generated_audio_path
  /\ player_state' = "Playing"
  /\ stop_button' = TRUE
  /\ play_button' = FALSE
  /\ msgbox' = None
  /\ UNCHANGED << last_generated_audio_path, last_generated_filename,
                  output_status_label, closed >>
  /\ job_unchanged

\* play_audio
play_audio ==
  /\ IF exists(last_generated_audio_path, fs)
     THEN /\ player_calls' = <<"stop", "setSource", "play">>
          /\ player_source' = last_generated_audio_path
          /\ player_state' = "Playing"
          /\ stop_button' = TRUE
          /\ play_button' = FALSE
          /\ msgbox' = None
     ELSE /\ msgbox' = <<"warning", "NoResult">>
          /\ play_button' = FALSE
          /\ player_calls' = <<>>
          /\ UNCHANGED << player_source, player_state, stop_button >>
  /\ UNCHANGED << last_generated_audio_path, last_generated_filename,
                  output_status_label, closed >>
  /\ job_unchanged

\* A stop_audio that does not look at the playback state
stop_audio_unguarded ==
  /\ player_calls' = <<"stop">>
  /\ player_state' = "Stopped"
  /\ stop_button' = FALSE
  /\ play_button' = can_replay
  /\ msgbox' = None
  /\ UNCHANGED << player_source, last_generated_audio_path,
                  last_generated_filename, output_status_label, closed >>
  /\ job_unchanged

\* stop_audio
stop_audio ==
  /\ IF player_state # "Stopped"
     THEN /\ player_calls' = <<"stop">>
          /\ player_state' = "Stopped"
          /\ stop_button' = FALSE
          /\ play_button' = can_replay
     ELSE /\ player_calls' = <<>>
          /\ UNCHANGED << player_state, stop_button, play_button >>
  /\ msgbox' = None
  /\ UNCHANGED << player_source, last_generated_audio_path,
                  last_generated_filename, output_status_label, closed >>
  /\ job_unchanged

\* QMediaPlayer.MediaStatus
MediaStatuses ==
  { "NoMedia", "LoadingMedia", "LoadedMedia", "StalledMedia", "BufferedMedia",
    "EndOfMedia", "InvalidMedia" }

\* media_status_changed
media_status_changed(status) ==
  /\ IF has_cross(output_status_label)
     THEN UNCHANGED << output_status_label, stop_button, play_button,
                       last_generated_filename >>
     ELSE CASE status = "LoadingMedia" ->
                 /\ output_status_label' = update_playback_status("none", "loading")
                 /\ UNCHANGED << stop_button, play_button, last_generated_filename >>
            [] status = "LoadedMedia" ->
                 /\ output_status_label' =
                      IF player_state = "Stopped"
                      THEN update_playback_status("none", "loaded")
                      ELSE output_status_label
                 /\ UNCHANGED << stop_button, play_button, last_generated_filename >>
            [] status = "EndOfMedia" ->
                 /\ output_status_label' = update_playback_status("check", "playback finished")
                 /\ stop_button' = FALSE
                 /\ play_button' = can_replay
                 /\ UNCHANGED last_generated_filename
            [] status = "StalledMedia" ->
                 /\ output_status_label' = update_playback_status("warn", "stalled")
                 /\ UNCHANGED << stop_button, play_button, last_generated_filename >>
            [] status = "InvalidMedia" ->
                 /\ output_status_label' = Label("cross", "cannot play this file", None)
                 /\ last_generated_filename' = None
                 /\ play_button' = FALSE
                 /\ stop_button' = FALSE
            [] OTHER ->
                 UNCHANGED << output_status_label, stop_button, play_button,
                              last_generated_filename >>
  /\ msgbox' = None
  /\ UNCHANGED << last_generated_audio_path, play_vars >>
  /\ job_unchanged

\* QMediaPlayer.PlaybackState
PlaybackStates == {"StoppedState", "PlayingState", "PausedState"}

\* The value of playbackState() once the player has reported `state`
state_of(state) ==
  CASE state = "PlayingState" -> "Playing"
    [] state = "PausedState" -> "Paused"
    [] OTHER -> "Stopped"

\* A playback_state_changed that does not look for the finished mark
playback_state_changed_forgets_finished(state) ==
  LET is_error == has_cross(output_status_label)
  IN  /\ CASE state = "PlayingState" ->
                IF ~is_error
                THEN /\ output_status_label' = update_playback_status("play", "playing")
                     /\ stop_button' = TRUE
                     /\ play_button' = FALSE
                ELSE UNCHANGED << output_status_label, stop_button, play_button >>
           [] state = "PausedState" ->
                IF ~is_error
                THEN /\ output_status_label' = update_playback_status("pause", "paused")
                     /\ stop_button' = TRUE
                     /\ play_button' = TRUE
                ELSE UNCHANGED << output_status_label, stop_button, play_button >>
           [] OTHER ->
                /\ output_status_label' =
                     IF ~is_error
                     THEN update_playback_status("stop", "playback stopped")
                     ELSE output_status_label
                /\ stop_button' = FALSE
                /\ play_button' = (~is_error /\ can_replay)
      /\ player_state' = state_of(state)
      /\ msgbox' = None
      /\ UNCHANGED << last_generated_audio_path, last_generated_filename,
                      player_source, player_calls, closed >>
      /\ job_unchanged

\* A playback_state_changed that does not look for an error in the label
playback_state_changed_overwrites(state) ==
  LET is_finished == has_check(output_status_label)
  IN  /\ CASE state = "PlayingState" ->
                /\ output_status_label' = update_playback_status("play", "playing")
                /\ stop_button' = TRUE
                /\ play_button' = FALSE
           [] state = "PausedState" ->
                /\ output_status_label' = update_playback_status("pause", "paused")
                /\ stop_button' = TRUE
                /\ play_button' = TRUE
           [] OTHER ->
                /\ output_status_label' =
                     IF ~is_finished
                     THEN update_playback_status("stop", "playback stopped")
                     ELSE output_status_label
                /\ stop_button' = FALSE
                /\ play_button' = can_replay
      /\ player_state' = state_of(state)
      /\ msgbox' = None
      /\ UNCHANGED << last_generated_audio_path, last_generated_filename,
                      player_source, player_calls, closed >>
      /\ job_unchanged

\* playback_state_changed
playback_state_changed(state) ==
  LET is_error    == has_cross(output_status_label)
      is_finished == has_check(output_status_label)
  IN  /\ CASE state = "PlayingState" ->
                IF ~is_error
                THEN /\ output_status_label' = update_playback_status("play", "playing")
                     /\ stop_button' = TRUE
                     /\ play_button' = FALSE
                ELSE UNCHANGED << output_status_label, stop_button, play_button >>
           [] state = "PausedState" ->
                IF ~is_error
                THEN /\ output_status_label' = update_playback_status("pause", "paused")
                     /\ stop_button' = TRUE
                     /\ play_button' = TRUE
                ELSE UNCHANGED << output_status_label, stop_button, play_button >>
           [] OTHER ->
                /\ output_status_label' =
                     IF ~is_finished /\ ~is_error
                     THEN update_playback_status("stop", "playback stopped")
                     ELSE output_status_label
                /\ stop_button' = FALSE
                /\ play_button' = (~is_error /\ can_replay)
      /\ player_state' = state_of(state)
      /\ msgbox' = None
      /\ UNCHANGED << last_generated_audio_path, last_generated_filename,
                      player_source, player_calls, closed >>
      /\ job_unchanged

\* media_player_error
media_player_error ==
  /\ msgbox' = <<"critical", "PlaybackError">>
  /\ output_status_label' = Label("cross", "playback failed", None)
  /\ last_generated_filename' = None
  /\ play_button' = FALSE
  /\ stop_button' = FALSE
  /\ UNCHANGED << last_generated_audio_path, play_vars >>
  /\ job_unchanged

\* A closeEvent that accepts the event whatever the answer is
closeEvent_accepts(reply) ==
  /\ player_calls' = <<"stop">>
  /\ player_state' = "Stopped"
  /\ IF busy(tts_thread, workers)
     THEN /\ msgbox' = <<"question", "TaskRunning", reply>>
          /\ closed' = TRUE
          /\ IF reply = "Yes"
             THEN /\ workers' = [workers EXCEPT ![tts_thread] = cancel(@)]
                  /\ output_status_label' = Label("none", "cancelling", None)
             ELSE UNCHANGED << workers, output_status_label >>
     ELSE /\ msgbox' = None
          /\ closed' = TRUE
          /\ UNCHANGED << workers, output_status_label >>
  /\ UNCHANGED << queue, fs, tts_thread, last_generated_audio_path,
                  last_generated_filename, progress_dialog, btn_generate,
                  play_button, stop_button, prompt_audio_path_edit,
                  player_source >>

\* closeEvent; reply is the answer given to the question box when it is shown
closeEvent(reply) ==
  /\ player_calls' = <<"stop">>
  /\ player_state' = "Stopped"
  /\ IF busy(tts_thread, workers)
     THEN /\ msgbox' = <<"question", "TaskRunning", reply>>
          /\ IF reply = "Yes"
             THEN /\ workers' = [workers EXCEPT ![tts_thread] = cancel(@)]
                  /\ output_status_label' = Label("none", "cancelling", None)
                  /\ closed' = TRUE
             ELSE UNCHANGED << workers, output_status_label, closed >>
     ELSE /\ msgbox' = None
          /\ closed' = TRUE
          /\ UNCHANGED << workers, output_status_label >>
  /\ UNCHANGED << queue, fs, tts_thread, last_generated_audio_path,
                  last_generated_filename, progress_dialog, btn_generate,
                  play_button, stop_button, prompt_audio_path_edit,
                  player_source >>

\* ---------------------------------------------------------------- actions
\* deleteLater, connected to both terminal signals: the worker object is
\* released once run() has returned and its terminal signal has been handled.
Releasable(i) ==
  /\ workers[i].pc = "done"
  /\ \A k \in 1..Len(queue) : queue[k].sender # i

DeleteLater ==
  /\ \E i \in 1..Len(workers) :
        Releasable(i) /\ workers' = [workers EXCEPT ![i] = Released]
  /\ UNCHANGED << queue, fs, gui_vars, play_vars, fn_vars >>

\* A message box is modal: no other slot of the window is entered until the
\* user has closed it.
NoBox == msgbox = None

\* The release of a worker object and the closing of a message box are
\* independent of every other step (no other step reads what they change, and
\* they read nothing another step changes), so they are taken first: every
\* other step waits until there is neither of them to take.
Settled == NoBox /\ ~closed /\ \A i \in 1..Len(workers) : ~Releasable(i)

\* The user hits a generate button.
RunVoiceClone ==
  /\ Settled
  /\ UNCHANGED << play_vars, fn_vars >>
  /\ \E t \in RawTexts, pt \in RawPromptTexts : run_voice_clone(t, pt)

RunVoiceCreation ==
  /\ Settled
  /\ UNCHANGED << play_vars, fn_vars >>
  /\ \E t \in RawTexts, c \in CreateChoices : run_voice_creation(t, c[1], c[2], c[3])

\* The user closes the message box.
CloseBox ==
  /\ msgbox # None
  /\ UNCHANGED << play_vars, fn_vars >>
  /\ msgbox' = None
  /\ UNCHANGED << workers, queue, fs, tts_thread, last_generated_audio_path,
                  last_generated_filename, progress_dialog, display_vars,
                  prompt_audio_path_edit >>

\* The GUI thread takes the next queued signal and runs the connected slot.
DeliverProgress ==
  /\ Settled
  /\ UNCHANGED << play_vars, fn_vars >>
  /\ queue # <<>> /\ Head(queue).sig = "progress"
  /\ queue' = Tail(queue)
  /\ update_progress(Head(queue).arg)
  /\ UNCHANGED << workers, fs >>

DeliverFinished ==
  /\ Settled
  /\ UNCHANGED << play_vars, fn_vars >>
  /\ queue # <<>> /\ Head(queue).sig = "finished"
  /\ queue' = Tail(queue)
  /\ on_tts_finished(Head(queue).arg)
  /\ UNCHANGED << workers, fs >>

DeliverError ==
  /\ Settled
  /\ UNCHANGED << play_vars, fn_vars >>
  /\ queue # <<>> /\ Head(queue).sig = "error"
  /\ queue' = Tail(queue)
  /\ on_tts_error(Head(queue).arg)
  /\ UNCHANGED << workers, fs >>

CancelTts == Settled /\ cancel_tts /\ UNCHANGED << play_vars, fn_vars >>

SelectPromptAudio ==
  Settled /\ select_prompt_audio(RefPath) /\ UNCHANGED << play_vars, fn_vars >>

\* The files the program may still look at: the reference clip named in the
\* path field or handed to a worker that has yet to call run_tts, the last
\* result, and the artifact of a worker that has yet to test for it.
Watched ==
  {prompt_audio_path_edit, last_generated_audio_path}
    \cup {workers[i].args.prompt_speech_path : i \in {k \in 1..Len(workers) :
             workers[k].pc \in {"start", "check1", "gateway"}}}
    \cup {workers[i].result_path : i \in {k \in 1..Len(workers) :
             workers[k].pc \in {"check2", "cleanup"}}}

\* A file disappears from disk behind the program's back (the loss of a file
\* the program never looks at again changes nothing it does).
ExternalRemove ==
  /\ Settled
  /\ UNCHANGED << play_vars, fn_vars >>
  /\ \E p \in fs \cap Watched : fs' = fs \ {p}
  /\ UNCHANGED << workers, queue, gui_vars >>

\* A worker thread takes its next step.
WorkerRun ==
  /\ Settled
  /\ UNCHANGED << play_vars, fn_vars >>
  /\ \E i \in 1..Len(workers) :
        \/ RunBegin(i)
        \/ PreDispatch(i)
        \/ Gateway(i)
        \/ PostDispatch(i)
        \/ Cleanup(i)
        \/ RunEnd(i)

\* The user hits the play or the stop button.
PlayAudio == Settled /\ play_audio /\ UNCHANGED fn_vars

StopAudio == Settled /\ stop_audio /\ UNCHANGED fn_vars

\* The media player reports a status, a state or an error.  A state other
\* than stopped is reported only of a player that has a source.
MediaStatusChanged ==
  /\ Settled
  /\ player_source # None
  /\ \E status \in MediaStatuses : media_status_changed(status)
  /\ UNCHANGED fn_vars

PlaybackStateChanged ==
  /\ Settled
  /\ player_source # None
  /\ \E state \in PlaybackStates : playback_state_changed(state)
  /\ UNCHANGED fn_vars

MediaPlayerError ==
  /\ Settled
  /\ player_source # None
  /\ media_player_error
  /\ UNCHANGED fn_vars

\* The window receives a close event.
CloseEvent ==
  /\ Settled
  /\ \E reply \in {"Yes", "No"} : closeEvent(reply)
  /\ UNCHANGED fn_vars

\* The window after __init__
InitWindow ==
  /\ workers = <<>>
  /\ tts_thread = 0
  /\ queue = <<>>
  /\ fs = {RefPath}
  /\ last_generated_audio_path = None
  /\ last_generated_filename = None
  /\ progress_dialog = None
  /\ btn_generate = TRUE
  /\ play_button = FALSE
  /\ stop_button = FALSE
  /\ output_status_label = Label("none", "click generate to start", None)
  /\ prompt_audio_path_edit = None
  /\ msgbox = None
  /\ player_state = "Stopped"
  /\ player_source = None
  /\ player_calls = <<>>
  /\ closed = FALSE

Init ==
  /\ InitWindow
  /\ fn_call = None
  /\ fn_results = <<>>

Next ==
  \/ RunVoiceClone
  \/ RunVoiceCreation
  \/ CloseBox
  \/ DeliverProgress
  \/ DeliverFinished
  \/ DeliverError
  \/ CancelTts
  \/ SelectPromptAudio
  \/ ExternalRemove
  \/ WorkerRun
  \/ DeleteLater

Spec == Init /\ [][Next]_vars

\* ------------------------------------------------------- the whole window
\* The window as its widgets drive it: the generate button is clicked only
\* while it is enabled, cancel_tts is entered from the progress dialog, and
\* the media player and the close event come in as well.  The playback slots
\* are entered whatever the state of their buttons.  Jobs are voice
\* creations: a clone differs in its validation and its arguments, which
\* no playback slot and no close event reads.
ClickGenerateCreate == btn_generate /\ RunVoiceCreation

DialogCanceled == progress_dialog # None /\ CancelTts

GuiNext ==
  \/ ClickGenerateCreate
  \/ DialogCanceled
  \/ CloseBox
  \/ DeliverProgress
  \/ DeliverFinished
  \/ DeliverError
  \/ ExternalRemove
  \/ WorkerRun
  \/ DeleteLater
  \/ PlayAudio
  \/ StopAudio
  \/ MediaStatusChanged
  \/ PlaybackStateChanged
  \/ MediaPlayerError
  \/ CloseEvent

GuiSpec == Init /\ [][GuiNext]_vars

\* ------------------------------------------------------ the jobs, to the end
\* The jobs as the window's widgets start and cancel them, with the threads
\* scheduled and the event loop running: a worker that can take a step takes
\* one in the end, a queued signal is delivered in the end, an open message
\* box is closed and a finished worker object released.
ClickGenerateClone == btn_generate /\ RunVoiceClone

JobNext ==
  \/ ClickGenerateClone
  \/ ClickGenerateCreate
  \/ DialogCanceled
  \/ SelectPromptAudio
  \/ CloseBox
  \/ DeliverProgress
  \/ DeliverFinished
  \/ DeliverError
  \/ ExternalRemove
  \/ WorkerRun
  \/ DeleteLater

Fairness ==
  /\ WF_vars(WorkerRun)
  /\ WF_vars(DeliverProgress)
  /\ WF_vars(DeliverFinished)
  /\ WF_vars(DeliverError)
  /\ WF_vars(CloseBox)
  /\ WF_vars(DeleteLater)

LiveSpec == Init /\ [][JobNext]_vars /\ Fairness

\* ---------------------------------------------- the functions on their own
\* clean_text, the file-name prefix of run_tts, the argument dictionaries and
\* run_tts read nothing of the window: each is called here on its own, on
\* every argument of a bounded set.
window_vars == << workers, queue, fs, gui_vars, play_vars >>

\* The characters of the strings: the three kinds of whitespace, a letter,
\* the underscore and a character that is neither.
Chars == {" ", "\t", "\n", "a", "_", "!"}

Strings == UNION { [1..n -> Chars] : n \in 0..MaxLen }

\* Strings that reach across the cut of text[:15]
Pad == [i \in 1..(PrefixLen - 2) |-> "a"]
LongStrings == { Pad \o s : s \in Strings }

CleanCalls == { <<"clean_text", s>> : s \in Strings }
PrefixCalls == { <<"safe_text_prefix", s>> : s \in Strings \cup LongStrings }

\* The slider positions, and a value on either side of their range
Levels == 0..6
CreationCalls == { <<"creation_args", p, sp>> : p \in Levels, sp \in Levels }

\* Clone submissions: what is typed in the reference-text box
CloneCalls == { <<"run_voice_clone", s>> : s \in Strings }
\* Calls of run_tts: the arguments of a clone or of a creation, with text
\* or (outside the window's use) without, the reference clip on disk or not
RunTtsCalls ==
  { <<"run_tts", a, d, env>> :
      a \in { clone_args(t, RefPath, pt) : t \in {<<>>, <<"a">>}, pt \in {<<>>, <<"a", "!">>} }
            \cup { creation_args(<<"a">>, "female", 5, 1) },
      d \in { {}, {RefPath} },
      env \in GatewayEnvs }

FnCalls == CleanCalls \cup PrefixCalls \cup CreationCalls \cup CloneCalls \cup RunTtsCalls

Called(name) == fn_call # None /\ fn_call[1] = name

\* clean_text is called, and called again on what it returned
CleanText ==
  /\ Called("clean_text")
  /\ Len(fn_results) < 2
  /\ fn_results' = Append(fn_results,
                     clean_text(IF fn_results = <<>> THEN fn_call[2]
                                ELSE fn_results[Len(fn_results)]))
  /\ UNCHANGED << fn_call, window_vars >>

\* run_tts builds the prefix of the file name
SafeTextPrefix ==
  /\ Called("safe_text_prefix")
  /\ fn_results = <<>>
  /\ fn_results' = << safe_text_prefix(fn_call[2]) >>
  /\ UNCHANGED << fn_call, window_vars >>

\* run_voice_creation builds the arguments of a job
CreationArgs ==
  /\ Called("creation_args")
  /\ fn_results = <<>>
  /\ fn_results' = << creation_args(<<"a">>, "female", fn_call[2], fn_call[3]) >>
  /\ UNCHANGED << fn_call, window_vars >>

\* run_voice_clone builds the arguments of a job from a text, the reference
\* clip and the reference text typed, and run_tts gives them to the model
CloneRequest ==
  LET text        == clean_text(strip(<<"a">>))
      prompt_text == clean_text(strip(fn_call[2]))
      args        == clone_args(text, RefPath, prompt_text)
  IN  /\ Called("run_voice_clone")
      /\ fn_results = <<>>
      /\ fn_results' =
           << [ box       |-> validate_clone(text, RefPath, {RefPath}),
                args      |-> args,
                inference |-> run_tts(model_loaded, args, 1, {RefPath}, "ok").inference ] >>
      /\ UNCHANGED << fn_call, window_vars >>

\* run_tts is called
RunTts ==
  /\ Called("run_tts")
  /\ fn_results = <<>>
  /\ fn_results' = << run_tts(model_loaded, fn_call[2], 1, fn_call[3], fn_call[4]) >>
  /\ UNCHANGED << fn_call, window_vars >>

FnInit ==
  /\ InitWindow
  /\ fn_call \in FnCalls
  /\ fn_results = <<>>

FnNext ==
  \/ CleanText
  \/ SafeTextPrefix
  \/ CreationArgs
  \/ CloneRequest
  \/ RunTts

FnSpec == FnInit /\ [][FnNext]_vars

\* ================================================================ claims
Workers == 1..Len(workers)

\* Worker i has emitted a terminal signal that the GUI has not handled yet.
TerminalPending(i) ==
  \E k \in 1..Len(queue) : queue[k].sender = i /\ queue[k].sig \in TerminalSigs

\* The job of worker i is Running: its thread was started and it has emitted
\* no terminal signal yet.
Running(w) == w.pc \in {"start", "check1", "gateway", "check2"}

CancelMessages == {"cancelled before start", "cancelled during processing"}

\* C1: at most one TTSWorker is between the start and the end of its run()
\* at any instant, the part of run() after the terminal signal included.
C1_AtMostOneWorkerInRun ==
  Cardinality({i \in Workers : InRun(workers[i])}) <= 1

\* The controller's handle names a worker whose thread is running: what
\* start_tts_thread reads.  (A thread whose run() has returned no longer
\* counts, even while its terminal signal waits in the queue.)
HandleRunning ==
  tts_thread # 0 /\ workers[tts_thread].pc \notin {"done", "released"}

SubmissionFrame ==
  UNCHANGED << workers, queue, fs, tts_thread, last_generated_audio_path,
               last_generated_filename, progress_dialog, display_vars >>

C2_Step ==
  HandleRunning =>
    /\ Len(workers') = Len(workers)
    /\ (RunVoiceClone \/ RunVoiceCreation) => (msgbox' # None /\ SubmissionFrame)
    /\ \A t \in RawTexts, c \in CreateChoices :
         (validate_creation(strip(t)) = None
            /\ run_voice_creation(t, c[1], c[2], c[3]))
           => msgbox' = <<"warning", "Busy">>
    /\ \A t \in RawTexts, pt \in RawPromptTexts :
         (validate_clone(clean_text(strip(t)), prompt_audio_path_edit, fs) = None
            /\ run_voice_clone(t, pt))
           => msgbox' = <<"warning", "Busy">>

\* C2: a submission made while the controller's worker thread is running is
\* answered with the Busy box when the request is valid; it creates no worker,
\* queues nothing, and leaves every worker (arguments, cancel flag, position),
\* the signal queue and the controller's fields as they were.
C2_BusySubmissionRejected == [][C2_Step]_vars

\* A Busy box is up while the worker is inside run_tts.
C2_Witness ==
  /\ msgbox = <<"warning", "Busy">>
  /\ HandleRunning
  /\ workers[tts_thread].pc = "gateway"

\* The signals of worker i in a queue, in order
SentBy(i, q) == SelectSeq(q, LAMBDA e : e.sender = i)

ProgressThenTerminal(emitted) ==
  /\ Len(emitted) = 2
  /\ emitted[1].sig = "progress"
  /\ emitted[2].sig \in TerminalSigs

\* What worker w has emitted, by its position in run()
C3_EmittedSoFar(w) ==
  CASE w.pc = "start" -> w.emitted = <<>>
    [] w.pc \in {"check1", "gateway", "check2"} ->
         Len(w.emitted) = 1 /\ w.emitted[1].sig = "progress"
    [] w.pc \in {"exit", "cleanup"} -> ProgressThenTerminal(w.emitted)
    [] OTHER -> TRUE

\* Nothing of worker i follows its terminal signal in the queue.
C3_TerminalLast(i) ==
  LET mine == SentBy(i, queue)
  IN  \A k \in 1..Len(mine) : mine[k].sig \in TerminalSigs => k = Len(mine)

\* run() is left only after a terminal signal, and a worker that has emitted
\* its terminal signal emits nothing more.
C3_Step ==
  \A i \in Workers :
     /\ (workers'[i].pc = "done" /\ workers[i].pc # "done")
          => workers[i].pc \in {"exit", "cleanup"}
     /\ workers[i].pc \in {"exit", "cleanup", "done", "released"}
          => Len(SentBy(i, queue')) <= Len(SentBy(i, queue))

\* C3: every run() emits progress first, then exactly one terminal signal
\* (finished or error) and nothing after it, whichever way it ends.
C3_ProgressThenOneTerminal ==
  /\ [](\A i \in Workers : C3_EmittedSoFar(workers[i]) /\ C3_TerminalLast(i))
  /\ [][C3_Step]_vars

\* A run() that ended in the except clause after run_tts raised.
C3_Witness ==
  \E i \in Workers :
     /\ workers[i].pc = "exit"
     /\ workers[i].invoked
     /\ ProgressThenTerminal(workers[i].emitted)
     /\ workers[i].emitted[2].arg = "unexpected error"

CancelledDuring(w) ==
  /\ ProgressThenTerminal(w.emitted)
  /\ w.emitted[2].sig = "error"
  /\ w.emitted[2].arg = "cancelled during processing"

\* The step in which worker i leaves the removal code
C4_RemovalStep(i) ==
  LET w == workers[i]
  IN  (w.pc = "cleanup" /\ workers'[i].pc # "cleanup") =>
        /\ workers'[i].pc = "done"
        /\ queue' = queue
        /\ UNCHANGED gui_vars
        /\ (w.result_path # None /\ w.result_path \in fs) =>
             /\ workers'[i].removal \in {"removed", "failed"}
             /\ workers'[i].removal = "removed" => fs' = fs \ {w.result_path}
             /\ workers'[i].removal = "failed" => fs' = fs

\* C4: a worker that finds the flag set at the check after run_tts returned a
\* path has emitted progress and the single error "cancelled during
\* processing", never finished; it then tries to remove the file when the
\* file is there, and that step, failing or not, emits nothing and changes
\* nothing of the controller.
C4_CancelAfterResult ==
  /\ [](\A i \in Workers :
          (workers[i].flag_at_post = "set" /\ workers[i].result_path # None)
            => (workers[i].pc = "cleanup" /\ CancelledDuring(workers[i])))
  /\ [][\A i \in Workers : C4_RemovalStep(i)]_vars

\* The removal of a cancelled job's artifact has failed: the file is still
\* there and nothing of that worker is left in the queue but its one error.
C4_Witness ==
  \E i \in Workers :
     /\ workers[i].pc = "done"
     /\ workers[i].removal = "failed"
     /\ save_path(i, <<"a", " ", "b">>) \in fs

\* C5: when the controller has handled the cancelled outcome of a job whose
\* inference produced a file, the removal of that file has already been
\* carried out or attempted: no worker that has emitted "cancelled during
\* processing" and has not tried the removal yet has had that signal handled
\* while its artifact is on disk.
C5_RemovalBeforeCancelledHandled ==
  \A i \in Workers :
     (workers[i].pc = "cleanup" /\ workers[i].result_path \in fs)
       => TerminalPending(i)

\* The step in which worker i has its flag set
C6_CancelStep(i) ==
  (~workers[i].is_cancelled /\ workers'[i].is_cancelled) =>
     /\ [workers'[i] EXCEPT !.is_cancelled = FALSE, !.cancel_at = "never"]
          = workers[i]
     /\ \A j \in Workers \ {i} : workers'[j] = workers[j]
     /\ UNCHANGED << queue, fs, tts_thread, last_generated_audio_path,
                     last_generated_filename, progress_dialog, btn_generate,
                     play_button, stop_button, prompt_audio_path_edit >>

\* The flag is read by the step that leaves the first check and by the step
\* that leaves the second check, and by no other.
C6_ReadStep(i) ==
  LET w == workers[i]
      v == workers'[i]
  IN  /\ (v.flag_at_pre # w.flag_at_pre /\ v.pc # "done")
           => (w.pc = "check1" /\ w.flag_at_pre = "unread")
      /\ (v.flag_at_post # w.flag_at_post /\ v.pc # "done")
           => (w.pc = "check2" /\ w.flag_at_post = "unread")
      /\ (w.pc = "check1" /\ v.pc # "check1") => v.flag_at_pre # "unread"
      /\ (w.pc = "check2" /\ v.pc # "check2") => v.flag_at_post # "unread"

C6_State(w) ==
  /\ w.flag_at_pre = "set" =>
       /\ ~w.invoked
       /\ w.pc = "exit"
       /\ ProgressThenTerminal(w.emitted)
       /\ w.emitted[2] = Signal(w.emitted[2].sender, "error", "cancelled before start")
  /\ w.invoked <=> (w.flag_at_pre = "clear")
  /\ w.cancel_at = "in run_tts" =>
       /\ w.invoked
       /\ w.pc \in {"gateway", "check2", "cleanup", "exit"}
       /\ w.pc = "check2" => w.flag_at_post = "unread"
       /\ w.pc = "cleanup" => (w.flag_at_post = "set" /\ CancelledDuring(w))
       /\ w.pc = "exit" =>
            (w.flag_at_post = "unread"
               /\ w.emitted[2].arg \in {"file error", "unexpected error"})

\* C6: setting the flag changes the flag of that worker and nothing else of
\* the worker, the queue or the disk; run() reads the flag at the check before
\* run_tts and at the check after it only; a flag found set at the first check
\* means run_tts is not called and the job ends "cancelled before start"; a
\* flag set while run_tts is in progress leaves the call going, and shows at
\* the second check (or not at all when run_tts raises).
C6_CooperativeCancel ==
  /\ [](\A i \in Workers : isRunning(workers[i]) => C6_State(workers[i]))
  /\ [][\A i \in Workers : C6_CancelStep(i) /\ C6_ReadStep(i)]_vars

\* The flag was set during run_tts and has been found at the second check.
C6_Witness ==
  \E i \in Workers :
     /\ workers[i].cancel_at = "in run_tts"
     /\ workers[i].flag_at_pre = "clear"
     /\ workers[i].flag_at_post = "set"
     /\ workers[i].result_path # None

ValidationBoxes ==
  { <<"warning", "EmptyInput">>, <<"warning", "MissingReference">>,
    <<"critical", "ReferenceNotFound">> }

\* The arguments of a worker passed the validation on the disk of that moment.
C7_Validated(args, disk) ==
  /\ args.text # <<>>
  /\ args.gender = None =>
       (args.prompt_speech_path # None /\ args.prompt_speech_path \in disk)

C7_Step ==
  /\ (msgbox = None /\ msgbox' \in ValidationBoxes) =>
        UNCHANGED << workers, queue, fs, tts_thread, btn_generate,
                     last_generated_audio_path, last_generated_filename,
                     progress_dialog, play_button, stop_button,
                     output_status_label >>
  /\ Len(workers') > Len(workers) =>
        C7_Validated(workers'[Len(workers')].args, fs)
  /\ \A t \in RawTexts, pt \in RawPromptTexts :
        (run_voice_clone(t, pt)
           /\ validate_clone(clean_text(strip(t)), prompt_audio_path_edit, fs) # None)
          => msgbox' \in ValidationBoxes
  /\ \A t \in RawTexts, c \in CreateChoices :
        (run_voice_creation(t, c[1], c[2], c[3]) /\ clean_text(strip(t)) = <<>>)
          => msgbox' \in ValidationBoxes

\* C7: a submission whose text is empty after cleaning, or, for a clone, whose
\* reference path is empty or names no file, ends in its validation box with
\* the workers, the thread handle, the generate buttons, the last result and
\* the queue as they were; and every worker that is created carries a
\* non-empty text and, for a clone, a reference path that exists.
C7_ValidationRejectsSynchronously == [][C7_Step]_vars

\* A clone was refused because its reference file is gone; the controller has
\* no job.
C7_Witness ==
  /\ msgbox = <<"critical", "ReferenceNotFound">>
  /\ prompt_audio_path_edit = None
  /\ tts_thread = 0
  /\ btn_generate

\* The GUI thread takes a finished signal off the queue
C8_Step ==
  (queue # <<>> /\ Head(queue).sig = "finished" /\ queue' = Tail(queue)) =>
     /\ last_generated_audio_path' = Head(queue).arg
     /\ last_generated_filename' = PathName(Head(queue).arg)
     /\ tts_thread' = 0
     /\ progress_dialog' = None
     /\ btn_generate'
     /\ play_button'
     /\ ~stop_button'
     /\ output_status_label'.icon = "check"

\* C8: handling finished(path) makes path the stored audio path and its file
\* name the stored name, clears the thread handle, closes the progress
\* dialog, and enables the generate buttons and the play button.
C8_SucceededStoresResult == [][C8_Step]_vars

\* The first job has succeeded and its result is stored.
C8_Witness ==
  /\ Len(workers) = 1
  /\ last_generated_audio_path # None
  /\ last_generated_filename = PathName(last_generated_audio_path)
  /\ tts_thread = 0
  /\ btn_generate
  /\ play_button
  /\ output_status_label.icon = "check"

\* C9 as stated: after a failed or cancelled job the stored audio path and
\* the stored file name of an earlier successful job are both as they were.
C9_Original ==
  (output_status_label.text = "generation failed"
     /\ last_generated_audio_path # None)
    => last_generated_filename = PathName(last_generated_audio_path)

C9_Step ==
  /\ Len(workers') > Len(workers) =>
       /\ last_generated_audio_path' = last_generated_audio_path
       /\ last_generated_filename' = None
  /\ (queue # <<>> /\ Head(queue).sig = "error" /\ queue' = Tail(queue)) =>
       /\ last_generated_audio_path' = last_generated_audio_path
       /\ last_generated_filename' = None

\* C9 (amended): neither the acceptance of a job nor the handling of its
\* failed or cancelled outcome changes the stored audio path of an earlier
\* successful job; both clear the stored file name.
C9_PathKeptNameCleared == [][C9_Step]_vars

\* A job has failed after an earlier one succeeded: the path of the earlier
\* result is still stored, its name is not.
C9_Witness ==
  /\ output_status_label.text = "generation failed"
  /\ last_generated_audio_path # None
  /\ last_generated_filename = None

\* C10: the controller state right after a cancelled outcome was handled
\* carries no error display (no error box, no failure label).
C10_CancelledShowsNoError ==
  (Len(msgbox) = 3 /\ msgbox[3] \in CancelMessages)
    => (msgbox[1] # "critical" /\ output_status_label.icon # "cross")

\* The GUI thread takes a terminal signal off the queue and runs its slot.
TerminalDelivery ==
  queue # <<>> /\ Head(queue).sig \in TerminalSigs /\ queue' = Tail(queue)

\* start_tts_thread has accepted a submission.
Accepted == Len(workers') > Len(workers)

\* The displays of the controller: Busy is what start_tts_thread sets up,
\* Ready what on_tts_finished does, Error what on_tts_error does.
BusyDisplay(gen, play, stop, label) ==
  ~gen /\ ~play /\ ~stop /\ label.icon = "hourglass"

ReadyOrError(label) == label.text \in {"generated", "generation failed"}

C11_Step ==
  /\ (ReadyOrError(output_status_label') /\ output_status_label' # output_status_label)
        => TerminalDelivery
  /\ TerminalDelivery => (~btn_generate /\ tts_thread # 0)
  /\ Accepted => BusyDisplay(btn_generate', play_button', stop_button',
                             output_status_label')

\* C11: the Ready and the Error display appear only when a terminal signal
\* is handled, a terminal signal is handled only while the controller is Busy
\* (generate buttons disabled, a job referenced), and every accepted
\* submission sets up the Busy display.
C11_ReadyErrorOnlyFromBusy == [][C11_Step]_vars

\* The second job has succeeded: Ready was left through Busy and entered
\* again.
C11_Witness ==
  /\ Len(workers) = 2
  /\ output_status_label.text = "generated"
  /\ last_generated_audio_path # None
  /\ PathName(last_generated_audio_path)[1] = 2
  /\ btn_generate
  /\ tts_thread = 0

\* Where the one terminal signal of worker i is
C12_State(i) ==
  LET mine == SentBy(i, queue)
  IN  IF tts_thread = i
      THEN \/ Running(workers[i])
              /\ \A k \in 1..Len(mine) : mine[k].sig = "progress"
           \/ ~Running(workers[i])
              /\ mine # <<>>
              /\ \A k \in 1..Len(mine) : mine[k].sig \in TerminalSigs <=> k = Len(mine)
      ELSE mine = <<>> /\ ~Running(workers[i])

C12_Step ==
  /\ (queue # <<>> /\ queue' = Tail(queue)) => Head(queue).sender = tts_thread
  /\ TerminalDelivery => tts_thread' = 0
  /\ Accepted => tts_thread = 0

\* C12: every signal the controller handles was emitted by the worker that
\* self.tts_thread references at that moment, and handling a terminal signal
\* clears the reference; the referenced worker either has yet to emit its
\* terminal signal or has it waiting in the queue, once and behind its
\* progress messages; of a worker that is no longer referenced nothing is
\* left in the queue; a job is accepted only when none is referenced.
C12_OneTerminalFromCurrentWorker ==
  /\ [](\A i \in Workers : C12_State(i))
  /\ [][C12_Step]_vars

\* The second job's error is handled while the second worker is the one
\* referenced: it waits in the queue behind nothing of the first.
C12_Witness ==
  /\ Len(workers) = 2
  /\ tts_thread = 2
  /\ ~Running(workers[2])
  /\ Len(queue) = 1
  /\ queue[1].sender = 2
  /\ queue[1].sig = "error"

C13_Step ==
  (PlayAudio /\ ~exists(last_generated_audio_path, fs)) =>
     /\ msgbox' = <<"warning", "NoResult">>
     /\ player_calls' = <<>>
     /\ UNCHANGED << player_state, player_source, output_status_label,
                     stop_button, last_generated_audio_path,
                     last_generated_filename, workers, queue, fs, tts_thread >>

\* C13: play_audio entered with no stored audio path, or with a stored path
\* that names no file, shows the NoResult box, makes no call on the player
\* and leaves the player's state and source, the status label and the last
\* result as they were.
C13_PlayWithoutResult == [][C13_Step]_vars

\* NoResult was answered while the player was playing a file that has since
\* gone: the player still plays.
C13_Witness ==
  /\ msgbox = <<"warning", "NoResult">>
  /\ last_generated_audio_path # None
  /\ last_generated_audio_path \notin fs
  /\ player_state = "Playing"
  /\ player_calls = <<>>

C14_Step ==
  (has_cross(output_status_label) /\ (MediaStatusChanged \/ PlaybackStateChanged))
    => /\ output_status_label' = output_status_label
       /\ ~play_button'
       /\ UNCHANGED << last_generated_audio_path, last_generated_filename >>

\* C14: while the status label shows an error (of the player, of an invalid
\* medium or of a failed job), a media status or playback state reported by
\* the player, whatever its value, leaves the label as it is and the play
\* button disabled.
C14_ErrorDisplaySticky == [][C14_Step]_vars

\* The player has reported a state after an error was displayed: it is
\* paused, under the error of the player.
C14_Witness ==
  /\ output_status_label.text = "playback failed"
  /\ player_state = "Paused"
  /\ ~play_button
  /\ ~stop_button

\* An error is displayed and play_audio has started the player since: every
\* slot that displays an error disables the stop button, and under an error
\* only play_audio enables it.
PlayedUnderError == has_cross(output_status_label) /\ stop_button

C15_Step ==
  /\ PlayAudio => output_status_label' = output_status_label
  /\ (has_cross(output_status_label) /\ ~has_cross(output_status_label'))
       => output_status_label'.text \in {"initializing", "generated", "cancelling"}

C16_Step ==
  /\ Accepted =>
       UNCHANGED << player_state, player_source, player_calls,
                    last_generated_audio_path >>
  /\ last_generated_audio_path' # last_generated_audio_path =>
       /\ TerminalDelivery
       /\ Head(queue) = Signal(tts_thread, "finished", last_generated_audio_path')
  /\ player_state' # player_state =>
       (PlayAudio \/ StopAudio \/ PlaybackStateChanged \/ CloseEvent)
  /\ player_source' # player_source => PlayAudio

\* C16: accepting a submission changes neither the player's state and source
\* nor the stored audio path; afterwards the stored path changes only when
\* the finished signal of the job in flight is handled, and the player's
\* state only through play_audio, stop_audio, a state the player reports,
\* or a close event.
C16_NewJobKeepsPlayback == [][C16_Step]_vars

\* A second job is in flight while the player plays the result of the first.
C16_Witness ==
  /\ Len(workers) = 2
  /\ tts_thread = 2
  /\ Running(workers[2])
  /\ player_state = "Playing"
  /\ player_source = last_generated_audio_path
  /\ PathName(player_source)[1] = 1

C17_Step ==
  (StopAudio /\ player_state = "Stopped") =>
     /\ player_calls' = <<>>
     /\ UNCHANGED << player_state, player_source, output_status_label,
                     play_button, stop_button, last_generated_audio_path,
                     last_generated_filename >>

\* C17: stop_audio entered while the player reports the stopped state calls
\* nothing on the player and leaves the status label, the play and stop
\* buttons and the stored result as they were.
C17_StopWhenStoppedIsNoOp == [][C17_Step]_vars

\* The only job's result was played and the player is stopped again; the
\* latest playback slot made no call though the result can still be played:
\* that slot was stop_audio.
C17_Witness ==
  /\ Len(workers) = 1
  /\ player_source # None
  /\ player_state = "Stopped"
  /\ player_calls = <<>>
  /\ play_button
  /\ exists(last_generated_audio_path, fs)

\* The player reports the end of the stream while no error is displayed.
EndOfStream ==
  /\ Settled
  /\ player_source # None
  /\ ~has_cross(output_status_label)
  /\ media_status_changed("EndOfMedia")

Finished(label) == has_check(label) /\ label.text = "playback finished"

\* The player reports the stopped state while the finished display is shown.
StoppedAfterFinished ==
  /\ Settled
  /\ player_source # None
  /\ Finished(output_status_label)
  /\ playback_state_changed("StoppedState")

\* The sentence as it stands: play is enabled whenever the stored audio path
\* still names a file.
C18_Original ==
  [][(EndOfStream \/ StoppedAfterFinished)
       => play_button' = exists(last_generated_audio_path, fs)]_vars

C18_Step ==
  /\ EndOfStream =>
       /\ Finished(output_status_label')
       /\ ~stop_button'
       /\ play_button' = can_replay
  /\ StoppedAfterFinished =>
       /\ output_status_label' = output_status_label
       /\ ~stop_button'
       /\ play_button' = can_replay

\* C18: the end of the stream reported with no error displayed puts the
\* finished text on the label, a stopped state reported afterwards leaves
\* that label as it is, and both enable the play button exactly when the
\* file name of the last result is still stored and its file exists.
C18_FinishedKeptReplayIfNamed == [][C18_Step]_vars

\* The finished display with the player stopped and replay offered.
C18_Witness ==
  /\ Finished(output_status_label)
  /\ output_status_label.name # None
  /\ player_state = "Stopped"
  /\ play_button
  /\ ~stop_button
  /\ tts_thread = 0

\* The answer given to the question box of closeEvent, when it was shown
Asked(box, reply) == box = <<"question", "TaskRunning", reply>>

C19_Step ==
  /\ (closed' /\ ~closed) => CloseEvent
  /\ CloseEvent =>
       IF busy(tts_thread, workers)
       THEN /\ Asked(msgbox', "Yes") \/ Asked(msgbox', "No")
            /\ Asked(msgbox', "Yes") =>
                 /\ closed'
                 /\ workers'[tts_thread].is_cancelled
                 /\ \A i \in 1..Len(workers) : i # tts_thread => workers'[i] = workers[i]
            /\ Asked(msgbox', "No") =>
                 /\ ~closed'
                 /\ UNCHANGED << workers, queue, fs, tts_thread, progress_dialog,
                                 output_status_label, btn_generate >>
       ELSE /\ msgbox' = None
            /\ closed'
            /\ UNCHANGED << workers, queue, tts_thread >>

C20_NoExitWhileRunning ==
  closed => \A i \in 1..Len(workers) : ~isRunning(workers[i])

\* C21: clean_text applied to its own result returns that result.
C21_CleanIdempotent ==
  (Called("clean_text") /\ Len(fn_results) = 2) => fn_results[2] = fn_results[1]

\* clean_text was called twice on a string with a tab, a newline and inner
\* whitespace to collapse, and the first call changed it.
C21_Witness ==
  /\ Called("clean_text")
  /\ Len(fn_results) = 2
  /\ fn_call[2] = <<"a", "\t", "\n", "a">>
  /\ fn_results[1] = <<"a", " ", "a">>

\* The non-whitespace runs of s, in order
RECURSIVE Runs(_)
Runs(s) ==
  LET t == lstrip(s)
      n == IF \E k \in 1..Len(t) : isspace(t[k])
           THEN (CHOOSE k \in 1..Len(t) :
                   isspace(t[k]) /\ \A j \in 1..(k - 1) : ~isspace(t[j])) - 1
           ELSE Len(t)
  IN  IF t = <<>> THEN <<>>
      ELSE <<SubSeq(t, 1, n)>> \o Runs(SubSeq(t, n + 1, Len(t)))

RECURSIVE JoinBySpace(_)
JoinBySpace(runs) ==
  IF runs = <<>> THEN <<>>
  ELSE IF Len(runs) = 1 THEN runs[1]
  ELSE runs[1] \o <<" ">> \o JoinBySpace(Tail(runs))

\* C22: clean_text returns the non-whitespace runs of its argument joined by
\* single spaces: no tab, no newline, no two spaces in a row, no space at
\* either end, and the empty string when the argument has no other character.
C22_CleanJoinsRuns ==
  (Called("clean_text") /\ fn_results # <<>>) =>
     LET s == fn_call[2]
         r == fn_results[1]
     IN  /\ r = JoinBySpace(Runs(s))
         /\ \A k \in 1..Len(r) : r[k] \notin {"\t", "\n"}
         /\ \A k \in 1..(Len(r) - 1) : ~(r[k] = " " /\ r[k + 1] = " ")
         /\ r # <<>> => (r[1] # " " /\ r[Len(r)] # " ")
         /\ (\A k \in 1..Len(s) : isspace(s[k])) => r = <<>>

\* Two runs came out of a string with whitespace of every kind around them.
C22_Witness ==
  /\ Called("clean_text")
  /\ fn_call[2] = <<"\n", "a", "\t", "!">>
  /\ fn_results = << <<"a", " ", "!">> >>

\* The factor of a level, in tenths, as the level-to-factor table states it
Factor(level) ==
  CASE level = 1 -> 8
    [] level = 2 -> 9
    [] level = 3 -> 10
    [] level = 4 -> 11
    [] level = 5 -> 12
    [] OTHER -> 10

CloneShaped(a) ==
  /\ a.prompt_speech_path # None
  /\ a.gender = None /\ a.pitch = None /\ a.speed = None

CreateShaped(a) ==
  /\ a.gender # None /\ a.pitch # None /\ a.speed # None
  /\ a.prompt_speech_path = None /\ a.prompt_text = None

\* C24: the arguments of every worker populate exactly one workflow: a
\* reference path with no gender, pitch or speed, or gender, pitch and speed
\* with no reference path and no reference text.
C24_OneWorkflowPerRequest ==
  \A i \in Workers :
     isRunning(workers[i]) =>
        /\ CloneShaped(workers[i].args) \/ CreateShaped(workers[i].args)
        /\ ~(CloneShaped(workers[i].args) /\ CreateShaped(workers[i].args))

\* A clone job and a create job, both with their arguments, one after the
\* other.
C24_Witness ==
  /\ Len(workers) = 2
  /\ isRunning(workers[1]) /\ CloneShaped(workers[1].args)
  /\ workers[1].args.prompt_text # None
  /\ isRunning(workers[2]) /\ CreateShaped(workers[2].args)

\* C25: a clone submission whose reference text cleans to fewer than two
\* characters is accepted with the reference text absent from its arguments
\* and from the model's; one of two characters or more is accepted too, and
\* the cleaned text is what the arguments hold and what the model is given.
C25_ShortReferenceTextAbsent ==
  (Called("run_voice_clone") /\ fn_results # <<>>) =>
     LET cleaned == JoinBySpace(Runs(fn_call[2]))
         r       == fn_results[1]
         passed  == IF Len(cleaned) < 2 THEN None ELSE cleaned
     IN  /\ r.box = None
         /\ r.args.prompt_text = passed
         /\ r.inference # None
         /\ r.inference[1].prompt_text = passed

\* A reference text of one character after cleaning went in as absent.
C25_Witness ==
  /\ fn_call = <<"run_voice_clone", <<" ", "a", "\n">> >>
  /\ fn_results # <<>>
  /\ fn_results[1].box = None
  /\ fn_results[1].args.prompt_text = None
  /\ fn_results[1].inference[1].prompt_text = None

\* C26: run_tts called with a text and a reference path that names no file
\* raises the file-not-found error, has not called the model's inference
\* and leaves the disk as it was.
C26_MissingReferenceBeforeModel ==
  (Called("run_tts") /\ fn_results # <<>>) =>
     LET a == fn_call[2]
         r == fn_results[1]
     IN  (a.text # <<>> /\ a.prompt_speech_path # None
            /\ a.prompt_speech_path \notin fn_call[3]) =>
           /\ r.raised = "FileNotFoundError"
           /\ r.inference = None
           /\ r.disk = fn_call[3]

\* run_tts was called for a clone whose reference clip is not on disk, in a
\* world where everything else would have worked.
C26_Witness ==
  /\ Called("run_tts")
  /\ fn_call[2].prompt_speech_path = RefPath
  /\ fn_call[2].text # <<>>
  /\ fn_call[3] = {}
  /\ fn_call[4] = "ok"
  /\ fn_results # <<>>
  /\ fn_results[1].raised = "FileNotFoundError"

\* C27: the error signal of a job whose model rejected the call's parameters
\* (a TypeError inside run_tts) differs from the error signal of a job whose
\* model returned no result.
C27_MismatchSurfacedDistinctly ==
  (/\ Called("run_tts")
   /\ fn_results # <<>>
   /\ fn_call[4] = "type_error"
   /\ fn_results[1].inference # None) =>
     run_emits(FALSE, fn_results[1]) #
       run_emits(FALSE, run_tts(model_loaded, fn_call[2], 1, fn_call[3], "inference_none"))

\* The reference clip of worker w is not on disk d.
ClipMissing(w, d) ==
  w.args.prompt_speech_path # None /\ w.args.prompt_speech_path \notin d

C28_Step ==
  \A i \in Workers :
     (workers[i].pc = "gateway" /\ workers'[i].pc # "gateway") =>
        \/ /\ workers'[i].pc = "check2"
           /\ ~ClipMissing(workers[i], fs)
           /\ workers'[i].emitted = workers[i].emitted
           /\ queue' = queue
        \/ /\ workers'[i].pc = "exit"
           /\ \E kind \in {"file error", "unexpected error"} :
                /\ kind = "file error" <=> ClipMissing(workers[i], fs)
                /\ workers'[i].emitted =
                     Append(workers[i].emitted, Signal(i, "error", kind))
                /\ queue' = Append(queue, Signal(i, "error", kind))
           /\ fs' = fs

\* C28: a call of run_tts that raises takes run() to its end with exactly
\* one error signal emitted, the file error for a FileNotFoundError (the
\* reference clip is missing) and the unexpected error for anything else; a
\* call that returns emits nothing by itself.
C28_ExceptionsBecomeOneError == [][C28_Step]_vars

\* Both kinds have been emitted: one worker found its clip missing, the
\* other could not make the results directory.
C28_Witness ==
  /\ \E i \in Workers : \E k \in 1..Len(queue) :
        queue[k] = Signal(i, "error", "file error")
  /\ \E i \in Workers : workers[i].pc = "exit"
        /\ workers[i].emitted # <<>>
        /\ workers[i].emitted[Len(workers[i].emitted)].arg = "unexpected error"

\* The alphanumeric, space and underscore characters of the first 15
\* characters of text, in order
KeptOfFirst15(text) ==
  LET RECURSIVE Sub(_)
      Sub(k) ==
        IF k > Len(text) \/ k > 15 THEN <<>>
        ELSE IF isalnum(text[k]) \/ text[k] = " " \/ text[k] = "_"
             THEN <<text[k]>> \o Sub(k + 1)
             ELSE Sub(k + 1)
  IN  Sub(1)

\* s without the spaces at its end
UpToLastNonSpace(s) ==
  LET ends == {k \in 1..Len(s) : s[k] # " "}
  IN  IF ends = {} THEN <<>>
      ELSE SubSeq(s, 1, CHOOSE k \in ends : \A j \in ends : j <= k)

\* The sentence as it stands: the prefix is that subsequence itself.
C29_Original ==
  (Called("safe_text_prefix") /\ fn_results # <<>>) =>
     fn_results[1] = IF KeptOfFirst15(fn_call[2]) = <<>> THEN AudioToken
                     ELSE KeptOfFirst15(fn_call[2])

\* C29: the prefix of the file name is the subsequence of alphanumeric,
\* space and underscore characters of the first 15 characters of the text
\* with the spaces at its end removed, and the token audio when nothing is
\* left.
C29_PrefixKeptAndTrimmed ==
  (Called("safe_text_prefix") /\ fn_results # <<>>) =>
     LET t == UpToLastNonSpace(KeptOfFirst15(fn_call[2]))
     IN  fn_results[1] = IF t = <<>> THEN AudioToken ELSE t

\* The cut fell after a space: the sixteenth and seventeenth characters and
\* that space are not in the prefix.
C29_Witness ==
  /\ fn_call = <<"safe_text_prefix", Pad \o <<"a", " ", "!", "a">> >>
  /\ fn_results = << Pad \o <<"a">> >>

\* The controller after a terminal slot
Idle == tts_thread = 0 /\ progress_dialog = None /\ btn_generate

C30_Step ==
  /\ (tts_thread # 0 /\ tts_thread' # tts_thread) =>
        (TerminalDelivery /\ Head(queue).sender = tts_thread)
  /\ TerminalDelivery =>
        (tts_thread' = 0 /\ progress_dialog' = None /\ btn_generate')

C31_NoPlayWhileJob == tts_thread # 0 => ~play_button

\* C32: a stored file name comes with a stored audio path, and is the base
\* name of that path.
C32_NameImpliesPath ==
  last_generated_filename # None =>
     /\ last_generated_audio_path # None
     /\ last_generated_filename = PathName(last_generated_audio_path)

\* The stopped state was reported after the second result had been played:
\* the handler looked for the file of a name and a path that are both those
\* of the second job.
C32_Witness ==
  /\ last_generated_filename # None
  /\ last_generated_filename[1] = 2
  /\ player_source = last_generated_audio_path
  /\ output_status_label.text = "playback stopped"
  /\ play_button

====
